---- MODULE Spec2Model ----
(***************************************************************************)
(* A model of src/src/server.py: the Attio list/record resolution and      *)
(* query tools (query_records, get_list_entries, get_list_statuses,        *)
(* update_list_entry, add_to_list, create_note) on top of the request      *)
(* gateway make_attio_request.                                             *)
(*                                                                         *)
(* Representation of Python values:                                        *)
(*   str            a sequence of one-character strings; None (of an       *)
(*                  optional str) is the one-element sequence <<"None">>   *)
(*   dict           a function from key strings to values; None (of an     *)
(*                  optional dict or list) is the record NoneDict          *)
(*   list           a sequence                                             *)
(*   f-string       Msg(fmt, args): the format and its arguments           *)
(*   str(exception) a record: the fixed prefix of the text, the HTTP       *)
(*                  status in it and the signature tokens it contains      *)
(*                                                                         *)
(* State: op, args are the running tool call and its arguments; pc is the  *)
(* position in its body; loc its local variables; log the gateway calls    *)
(* it has made, each marked with whether an HTTP request left the process; *)
(* last is the outcome of the gateway call of the latest step (NoCall when *)
(* the step made none); result is the mapping the tool returned; envKey is *)
(* os.environ's ATTIO_API_KEY.                                             *)
(*                                                                         *)
(* The functions under @mcp.tool are taken as the plain functions they are *)
(* written as: a call of query_records or get_list_entries from another    *)
(* tool runs the function's body.                                          *)
(***************************************************************************)
EXTENDS Integers, Sequences, FiniteSets, TLC

VARIABLES op, args, envKey, pc, loc, log, last, result

vars == <<op, args, envKey, pc, loc, log, last, result>>

(***************************************************************************)
(* Bounds of the model.                                                    *)
(***************************************************************************)
MaxLists == 2
MaxIds == 2
MaxRecords == 2
MaxEntries == 2

(***************************************************************************)
(* Python values.                                                          *)
(***************************************************************************)
None == <<"None">>
NoneDict == [none |-> TRUE]
EmptyMap == [k \in {} |-> TRUE]
Junk == [junk |-> TRUE]

IsNoneDict(x) == "none" \in DOMAIN x
IsJunk(x) == "junk" \in DOMAIN x

\* truth value of an optional str: None and "" are falsy
TruthyStr(s) == s # None /\ s # <<>>
\* truth value of an optional dict: None and {} are falsy
TruthyDict(d) == ~IsNoneDict(d) /\ DOMAIN d # {}
\* truth value of an optional list, held as NoneDict or [list |-> <<...>>]
TruthyList(l) == ~IsNoneDict(l) /\ l.list # <<>>

\* d.get(k, default)
Get(d, k, default) == IF k \in DOMAIN d THEN d[k] ELSE default

LowerChar(c) ==
  CASE c = "A" -> "a" [] c = "D" -> "d" [] c = "E" -> "e" [] c = "F" -> "f"
    [] c = "N" -> "n" [] c = "U" -> "u" [] c = "V" -> "v" [] c = "X" -> "x"
    [] OTHER -> c

\* str.lower()
Lower(s) == [i \in 1..Len(s) |-> LowerChar(s[i])]

\* sub in s
Contains(sub, s) ==
  \E i \in 0..(Len(s) - Len(sub)) : SubSeq(s, i + 1, i + Len(sub)) = sub

\* c in s, for one character
HasChar(c, s) == \E i \in 1..Len(s) : s[i] = c

RECURSIVE Pad(_, _)
Pad(s, n) == IF Len(s) >= n THEN s ELSE Pad(Append(s, "0"), n)

RECURSIVE SeqsUpTo(_, _)
\* the sequences of at most n elements of S
SeqsUpTo(S, n) ==
  IF n = 0 THEN {<<>>}
  ELSE LET shorter == SeqsUpTo(S, n - 1)
       IN shorter \cup {Append(q, x) : q \in {r \in shorter : Len(r) = n - 1}, x \in S}

NoRepeat(q) == \A i, j \in 1..Len(q) : q[i] = q[j] => i = j

Msg(fmt, fargs) == [fmt |-> fmt, args |-> fargs]
AStr(s) == [str |-> s]
AInt(n) == [int |-> n]
AErr(e) == [err |-> e]
ANames(q) == [names |-> q]

(***************************************************************************)
(* Texts of exceptions.                                                    *)
(***************************************************************************)
ErrText(prefix, status, tokens) == [prefix |-> prefix, status |-> status, tokens |-> tokens]
ErrApiKey == ErrText("API key is required", 0, {})
ErrMethod(method) == ErrText("Unsupported HTTP method", 0, {method})
ErrHttp(status, tokens) == ErrText("HTTP", status, tokens)
ErrNet == ErrText("Network error", 0, {})
ErrType == ErrText("TypeError", 0, {})
ErrAttribute == ErrText("AttributeError", 0, {})
ErrKey == ErrText("KeyError", 0, {})
NoExc == ErrText("", 0, {})

(***************************************************************************)
(* The remote workspace: what the Attio API may answer.                    *)
(***************************************************************************)
K1 == <<"key-arg">>
K2 == <<"key-env">>

People == <<"people">>
Companies == <<"companies">>

LFund == [id |-> [list_id |-> <<"l", "1">>], name |-> <<"F", "u", "n", "d">>]
Lfun == [id |-> [list_id |-> <<"l", "2">>], name |-> <<"f", "u", "n">>]
LVip == [id |-> [list_id |-> <<"l", "3">>], name |-> <<"V", "i", "p">>]
LNoName == [id |-> [list_id |-> <<"l", "4">>]]
ListObjects == {LFund, Lfun, LVip, LNoName, Junk}
ListsData == {q \in SeqsUpTo(ListObjects, MaxLists) : NoRepeat(q)}

Ann == <<"A", "n", "n">>
AnnMail == <<"a", "@", "e">>
Ned == <<"N", "e", "d">>
RAnn == [id |-> [record_id |-> <<"r", "1">>],
         values |-> [name |-> <<[value |-> Ann]>>,
                     email_addresses |-> <<[value |-> AnnMail]>>]]
RNed == [values |-> [name |-> <<[value |-> Ned]>>, email_addresses |-> <<>>]]
RecordObjects == {RAnn, RNed, Junk}
RecordsData == {q \in SeqsUpTo(RecordObjects, MaxRecords) : NoRepeat(q)}

Open == <<"O", "p">>
Lost == <<"L", "o">>
SOpen == [id |-> [status_id |-> <<"s", "1">>], title |-> Open, is_archived |-> FALSE]
SLost == [id |-> [status_id |-> <<"s", "2">>], title |-> Lost]
EAnn == [id |-> [entry_id |-> <<"e", "1">>],
         parent_record_id |-> <<"r", "1">>,
         entry_values |-> [status |-> <<[status |-> SOpen]>>],
         parent_record |-> [values |-> [name |-> <<[value |-> Ann]>>,
                                        email_addresses |-> <<[value |-> AnnMail]>>]]]
ENed == [id |-> [entry_id |-> <<"e", "2">>],
         parent_record_id |-> <<"r", "2">>,
         entry_values |-> [status |-> <<[status |-> SLost]>>],
         parent_record |-> [values |-> [name |-> <<[value |-> Ned]>>,
                                        email_addresses |-> <<>>]]]
EBare == [id |-> [entry_id |-> <<"e", "3">>],
          parent_record_id |-> <<"r", "3">>,
          entry_values |-> [status |-> <<>>]]
\* an entry of a list with an attribute of its own under the slug
\* record_name, in the same status as EAnn
EClash == [id |-> [entry_id |-> <<"e", "4">>],
           parent_record_id |-> <<"r", "4">>,
           entry_values |-> [record_name |-> <<[value |-> <<"X">>]>>,
                             status |-> <<[status |-> SOpen]>>],
           parent_record |-> [values |-> [name |-> <<[value |-> Ned]>>]]]
EntryObjects == {EAnn, ENed, EBare, EClash, Junk}
EntriesData == {q \in SeqsUpTo(EntryObjects, MaxEntries) : NoRepeat(q)}

Endpoint(path, a, b) == [path |-> path, a |-> a, b |-> b]
NoData == NoneDict

\* the JSON bodies of the 2xx answers to a request
RemoteJson(endpoint) ==
  CASE endpoint.path = "/lists" -> {[data |-> q] : q \in ListsData}
    [] endpoint.path = "/objects/{}/records/query" -> {[data |-> q] : q \in RecordsData}
    [] endpoint.path = "/lists/{}/entries/query" -> {[data |-> q] : q \in EntriesData}
    [] endpoint.path = "/notes" -> {[data |-> [id |-> [note_id |-> <<"n", "1">>]]],
                                    [data |-> EmptyMap]}
    [] OTHER -> {[data |-> EmptyMap]}

\* the texts of the failures of a request that was sent: a non-2xx answer
\* (HTTPError) or any other requests exception (connection, timeout, a body
\* that is no JSON); a query may also be refused for its filter, and the text of
\* the refusal then holds the remote's code for it
UnknownStatusSlug == "unknown_filter_status_slug"
InvalidFilterOperator == "invalid_filter_operator"
IsQueryPath(path) == path \in {"/objects/{}/records/query", "/lists/{}/entries/query"}
RemoteErrors(endpoint) ==
  {ErrHttp(500, {}), ErrNet}
  \cup (IF IsQueryPath(endpoint.path)
        THEN {ErrHttp(400, {UnknownStatusSlug}), ErrHttp(400, {InvalidFilterOperator}),
              ErrHttp(404, {})}
        ELSE {})

(***************************************************************************)
(* make_attio_request: the outcomes of one gateway call. sent says whether *)
(* an HTTP request left the process; ok whether a parsed body came back.   *)
(***************************************************************************)
SupportedMethods == {"GET", "POST", "PATCH", "DELETE"}

\* a variant that keeps the key of the call for the calls to come
environ_after_keeping(api_key) == IF TruthyStr(api_key) THEN api_key ELSE envKey

\* ATTIO_API_KEY of os.environ after a step of a tool called with api_key:
\* the gateway reads it with os.environ.get and nothing assigns to it
environ_after(api_key) == envKey

\* a variant that prefers the environment's key
ResolveKeyEnvFirst(api_key) == IF TruthyStr(envKey) THEN envKey ELSE api_key

ResolveKey(api_key) == IF TruthyStr(api_key) THEN api_key ELSE envKey

Request(endpoint, method, data, key, sent) ==
  [method |-> method, endpoint |-> endpoint, data |-> data, key |-> key, sent |-> sent]

make_attio_request(endpoint, method, data, api_key) ==
  LET key == ResolveKey(api_key)
  IN IF ~TruthyStr(key)
     THEN {[req |-> Request(endpoint, method, data, key, FALSE),
            ok |-> FALSE, json |-> NoneDict, exc |-> ErrApiKey]}
     ELSE IF method \notin SupportedMethods
     THEN {[req |-> Request(endpoint, method, data, key, FALSE),
            ok |-> FALSE, json |-> NoneDict, exc |-> ErrMethod(method)]}
     ELSE {[req |-> Request(endpoint, method, data, key, TRUE),
            ok |-> TRUE, json |-> j, exc |-> NoExc] : j \in RemoteJson(endpoint)}
          \cup
          {[req |-> Request(endpoint, method, data, key, TRUE),
            ok |-> FALSE, json |-> NoneDict, exc |-> e] : e \in RemoteErrors(endpoint)}

\* the HTTP requests among the gateway calls
SentRequests == SelectSeq(log, LAMBDA r : r.sent)

(***************************************************************************)
(* Outcomes of a block of code: it falls through with new local values,    *)
(* returns a mapping, or raises.                                           *)
(***************************************************************************)
Go(l) == [kind |-> "go", loc |-> l]
Return(r) == [kind |-> "return", result |-> r]
Raise(e) == [kind |-> "raise", exc |-> e]

\* an exception that left the tool function
Uncaught(e) == [raised |-> TRUE, exc |-> e]
NoResult == [pending |-> TRUE]
NoCall == [nocall |-> TRUE]

\* the call r of the gateway, made while item number item of a bulk call
\* was processed (0 outside the loop)
Logged(r, item) == [method |-> r.method, endpoint |-> r.endpoint, data |-> r.data,
                    key |-> r.key, sent |-> r.sent, item |-> item]

\* str(e) in a text that looks for a substring
StatusText(status) ==
  CASE status = 400 -> "400" [] status = 404 -> "404" [] status = 500 -> "500"
    [] OTHER -> ""
ErrContains(e, tok) == tok \in e.tokens \/ (e.prefix = "HTTP" /\ tok = StatusText(e.status))

(***************************************************************************)
(* query_records                                                           *)
(***************************************************************************)
\* a variant that always carries the filter, None included
QueryDataWithFilter(filters, limit, sorts) ==
  (IF TruthyList(sorts) THEN [sorts |-> sorts.list] ELSE EmptyMap)
  @@ [filter |-> filters, limit |-> limit]

QueryData(filters, limit, sorts) ==
  (IF TruthyList(sorts) THEN [sorts |-> sorts.list] ELSE EmptyMap)
  @@ (IF TruthyDict(filters) THEN [filter |-> filters] ELSE EmptyMap)
  @@ [limit |-> limit]

RecordIdOf(record) == Get(Get(record, "id", EmptyMap), "record_id", None)

\* a variant that keeps an attribute without value, as None
query_records_format_keep_empty(record) ==
  LET values == Get(record, "values", EmptyMap)
  IN [k \in DOMAIN values |-> IF values[k] = <<>> THEN None ELSE values[k][1]]
     @@ [id |-> RecordIdOf(record)]

\* record_info of one row of the answer
query_records_format(record) ==
  LET values == Get(record, "values", EmptyMap)
      present == {k \in DOMAIN values : values[k] # <<>>}
  IN [k \in present |-> values[k][1]] @@ [id |-> RecordIdOf(record)]

\* a variant that lets the exception leave query_records
query_records_reraise(object_type, filters, e) == Uncaught(e)

query_records_except(object_type, filters, e) ==
  [success |-> FALSE,
   error |-> e,
   message |-> Msg("Failed to query {}: {}", <<AStr(object_type), AErr(e)>>),
   suggestion |->
     IF ErrContains(e, "404") \/ ErrContains(e, "not found")
     THEN Msg("Object type '{}' may not exist. Use list_available_objects() to see valid types.",
              <<AStr(object_type)>>)
     ELSE IF ErrContains(e, "400") \/ ErrContains(e, "bad request")
     THEN Msg("Filter syntax may be incorrect. Use get_object_schema() to see valid attributes.", <<>>)
     ELSE Msg("", <<>>),
   filters_used |-> filters]

\* a variant that reports an empty answer as a failure
query_records_none_failed(object_type, filters) ==
  [success |-> FALSE,
   message |-> Msg("No {} found matching the filters", <<AStr(object_type)>>),
   filters_used |-> filters]

(***************************************************************************)
(* The objects of a normalization, by identity: mem is the sequence of the *)
(* dicts alive, a dict's address its position. The rows of the answer are  *)
(* there before the loop; record_info = {...} makes a new dict.            *)
(***************************************************************************)
\* the addresses of the rows of an answer
Addresses(rows) == [i \in 1..Len(rows) |-> i]

\* a variant that fills the row itself instead of a new dict
query_records_store_in_place(mem, row) ==
  [mem EXCEPT ![row] = query_records_format(mem[row])]

\* one turn of the loop over result["data"]: the row is read, record_info
\* is a new dict
query_records_store(mem, row) == Append(mem, query_records_format(mem[row]))

RECURSIVE query_records_loop(_, _, _)
\* the loop over the rows at the addresses rows; records holds the
\* addresses appended so far
query_records_loop(mem, rows, records) ==
  IF rows = <<>> THEN [mem |-> mem, records |-> records]
  ELSE LET after == query_records_store(mem, Head(rows))
       IN query_records_loop(after, Tail(rows), Append(records, Len(after)))

\* the mapping returned for an answer without rows
query_records_none(object_type, filters) ==
  [success |-> TRUE, found |-> FALSE, count |-> 0, records |-> <<>>,
   message |-> Msg("No {} found matching the filters", <<AStr(object_type)>>),
   filters_used |-> filters]

query_records_try(object_type, filters, g) ==
  IF ~g.ok THEN Raise(g.exc)
  ELSE LET data == g.json.data
       IN IF data = <<>>
          THEN Return(query_records_none(object_type, filters))
          ELSE IF \E i \in 1..Len(data) : IsJunk(data[i])
          THEN Raise(ErrAttribute)
          ELSE LET r == query_records_loop(data, Addresses(data), <<>>)
                   records == [i \in 1..Len(r.records) |-> r.mem[r.records[i]]]
               IN Return([success |-> TRUE, found |-> TRUE, count |-> Len(records),
                          object_type |-> object_type, records |-> records,
                          message |-> Msg("Found {} {} matching the filters",
                                          <<AInt(Len(records)), AStr(object_type)>>),
                          filters_used |-> filters])

\* the gateway call of one query_records call and the mapping it returns
query_records(object_type, api_key, filters, limit, sorts) ==
  {[g |-> g,
    result |-> LET o == query_records_try(object_type, filters, g)
               IN IF o.kind = "raise"
                  THEN query_records_except(object_type, filters, o.exc)
                  ELSE o.result]
   : g \in make_attio_request(Endpoint("/objects/{}/records/query", object_type, None),
                              "POST", QueryData(filters, limit, sorts), api_key)}

(***************************************************************************)
(* Resolution of a list identifier.                                        *)
(***************************************************************************)
IdMinLen == 30
Unknown == <<"U", "n", "k", "n", "o", "w", "n">>

\* a variant that also takes an identifier of exactly IdMinLen characters for a name
NameLikeUpToMin(list_identifier) ==
  ~HasChar("-", list_identifier) \/ Len(list_identifier) <= IdMinLen

\* the identifier is taken for a name, not for a list ID
NameLike(list_identifier) ==
  ~HasChar("-", list_identifier) \/ Len(list_identifier) < IdMinLen

MatchingLists(list_identifier, data) ==
  SelectSeq(data, LAMBDA l : Contains(Lower(list_identifier), Lower(Get(l, "name", <<>>))))

\* a variant that reports only the lists that carry a name
ListNamesNamedOnly(q) ==
  LET named == SelectSeq(q, LAMBDA l : "name" \in DOMAIN l)
  IN [i \in 1..Len(named) |-> named[i].name]

ListNames(q) == [i \in 1..Len(q) |-> Get(q[i], "name", Unknown)]

\* a variant that takes the display name for the ID
ListIdOfName(list_obj) == Get(list_obj, "name", None)

ListIdOf(list_obj) == Get(Get(list_obj, "id", EmptyMap), "list_id", None)

(***************************************************************************)
(* _get_list_entries_internal                                              *)
(***************************************************************************)
\* the list lookup, given the gateway's outcome g
get_list_entries_resolve(list_identifier, g) ==
  IF ~g.ok THEN Raise(g.exc)
  ELSE LET data == g.json.data
       IN IF data = <<>>
          THEN Return([success |-> FALSE,
                       message |-> Msg("No lists found in workspace", <<>>),
                       suggestion |-> Msg("Check if lists exist in your Attio workspace", <<>>)])
          ELSE IF \E i \in 1..Len(data) : IsJunk(data[i])
          THEN Raise(ErrAttribute)
          ELSE LET matching_lists == MatchingLists(list_identifier, data)
               IN IF matching_lists = <<>>
                  THEN Return([success |-> FALSE,
                               message |-> Msg("Could not find list matching '{}'",
                                               <<AStr(list_identifier)>>),
                               available_lists |-> ListNames(data),
                               suggestion |-> Msg("Use one of the available list names", <<>>)])
                  ELSE IF Len(matching_lists) > 1
                  THEN Return([success |-> FALSE,
                               message |-> Msg("Found {} lists matching '{}': {}",
                                               <<AInt(Len(matching_lists)), AStr(list_identifier),
                                                 ANames(ListNames(matching_lists))>>),
                               suggestion |-> Msg("Be more specific or use the list ID directly", <<>>)])
                  ELSE Go([list_id |-> ListIdOf(matching_lists[1]),
                           list_name |-> Get(matching_lists[1], "name", list_identifier)])

EntriesQueryData(filters, limit) ==
  (IF TruthyDict(filters) THEN [filter |-> filters] ELSE EmptyMap) @@ [limit |-> limit]

\* entry_info of one row of the answer: later assignments replace earlier ones
get_list_entries_format(entry) ==
  LET entry_values == Get(entry, "entry_values", EmptyMap)
      ekeys == {k \in DOMAIN entry_values : entry_values[k] # <<>>}
      values == IF "parent_record" \in DOMAIN entry
                THEN Get(entry.parent_record, "values", EmptyMap)
                ELSE EmptyMap
      vkeys == {k \in DOMAIN values : values[k] # <<>>}
  IN [rk \in {"record_" \o k : k \in vkeys} |->
        LET k == CHOOSE k \in vkeys : "record_" \o k = rk IN values[k][1]]
     @@ [k \in ekeys |-> entry_values[k][1]]
     @@ [entry_id |-> Get(Get(entry, "id", EmptyMap), "entry_id", None),
         record_id |-> Get(entry, "parent_record_id", None)]

\* one turn of the loop over result["data"]: the row is read, entry_info is
\* a new dict
get_list_entries_store(mem, row) == Append(mem, get_list_entries_format(mem[row]))

RECURSIVE get_list_entries_loop(_, _, _)
get_list_entries_loop(mem, rows, entries) ==
  IF rows = <<>> THEN [mem |-> mem, entries |-> entries]
  ELSE LET after == get_list_entries_store(mem, Head(rows))
       IN get_list_entries_loop(after, Tail(rows), Append(entries, Len(after)))

get_list_entries_query(list_id, list_name, filters, g) ==
  IF ~g.ok THEN Raise(g.exc)
  ELSE LET data == g.json.data
       IN IF data = <<>>
          THEN Return([success |-> TRUE, found |-> FALSE, count |-> 0,
                       list_name |-> list_name, entries |-> <<>>,
                       message |-> IF TruthyDict(filters)
                                   THEN Msg("No entries found in list '{}' matching filters",
                                            <<AStr(list_name)>>)
                                   ELSE Msg("No entries found in list '{}'", <<AStr(list_name)>>)])
          ELSE IF \E i \in 1..Len(data) : IsJunk(data[i])
          THEN Raise(ErrAttribute)
          ELSE LET r == get_list_entries_loop(data, Addresses(data), <<>>)
                   entries == [i \in 1..Len(r.entries) |-> r.mem[r.entries[i]]]
               IN Return([success |-> TRUE, found |-> TRUE, count |-> Len(entries),
                          list_name |-> list_name, list_id |-> list_id, entries |-> entries,
                          message |-> Msg("Found {} entries in list '{}'",
                                          <<AInt(Len(entries)), AStr(list_name)>>)])

get_list_entries_except(e) ==
  IF ErrContains(e, "unknown_filter_status_slug") \/ ErrContains(e, "Unknown status")
  THEN [success |-> FALSE, error |-> e,
        message |-> Msg("Status filtering error: {}", <<AErr(e)>>),
        suggestion |-> Msg("Status filtering requires status IDs, not display names. Use get_list_statuses() to find available statuses and their IDs.", <<>>),
        help |-> [tool |-> "get_list_statuses"]]
  ELSE IF ErrContains(e, "invalid_filter_operator")
  THEN [success |-> FALSE, error |-> e,
        message |-> Msg("Filter operator error: {}", <<AErr(e)>>),
        suggestion |-> Msg("Status fields only support '$eq' operator. Use exact status ID matches.", <<>>),
        help |-> [correct_format |-> "$eq", incorrect_format |-> "$contains"]]
  ELSE [success |-> FALSE, error |-> e,
        message |-> Msg("Failed to get list entries: {}", <<AErr(e)>>)]

(***************************************************************************)
(* get_list_statuses                                                       *)
(***************************************************************************)
Ord(c) ==
  CASE c = "-" -> 45 [] c = "@" -> 64
    [] c = "A" -> 65 [] c = "F" -> 70 [] c = "L" -> 76 [] c = "N" -> 78
    [] c = "O" -> 79 [] c = "V" -> 86
    [] c = "a" -> 97 [] c = "d" -> 100 [] c = "e" -> 101 [] c = "f" -> 102
    [] c = "i" -> 105 [] c = "n" -> 110 [] c = "o" -> 111 [] c = "p" -> 112
    [] c = "u" -> 117 [] c = "x" -> 120
    [] OTHER -> 48

RECURSIVE StrLess(_, _)
\* a < b for two str
StrLess(a, b) ==
  IF b = <<>> THEN FALSE
  ELSE IF a = <<>> THEN TRUE
  ELSE IF Ord(Head(a)) # Ord(Head(b)) THEN Ord(Head(a)) < Ord(Head(b))
  ELSE StrLess(Tail(a), Tail(b))

\* a variant that leaves the statuses in the order they were met
SortByTitleNot(q) == q

RECURSIVE SortByTitle(_)
\* list.sort(key=title): stable
SortByTitle(q) ==
  IF q = <<>> THEN <<>>
  ELSE LET sorted == SortByTitle(SubSeq(q, 1, Len(q) - 1))
           x == q[Len(q)]
           n == Cardinality({i \in 1..Len(sorted) : ~StrLess(x.title, sorted[i].title)})
       IN SubSeq(sorted, 1, n) \o <<x>> \o SubSeq(sorted, n + 1, Len(sorted))

HasStatus(entry) == "status" \in DOMAIN entry /\ "status" \in DOMAIN entry.status

RECURSIVE ExtractStatuses(_, _)
\* the statuses dict after the loop over entries, in insertion order, or the
\* KeyError of a status object without id or title
ExtractStatuses(entries, statuses) ==
  IF entries = <<>> THEN Go(statuses)
  ELSE LET entry == Head(entries)
       IN IF ~HasStatus(entry) THEN ExtractStatuses(Tail(entries), statuses)
          ELSE LET status_info == entry.status.status
               IN IF \/ "id" \notin DOMAIN status_info
                     \/ "status_id" \notin DOMAIN status_info.id
                     \/ "title" \notin DOMAIN status_info
                  THEN Raise(ErrKey)
                  ELSE LET status_id == status_info.id.status_id
                           seen == {i \in 1..Len(statuses) : statuses[i].id = status_id}
                       IN IF seen = {}
                          THEN ExtractStatuses(Tail(entries),
                                 Append(statuses,
                                        [id |-> status_id,
                                         title |-> status_info.title,
                                         is_archived |-> Get(status_info, "is_archived", FALSE),
                                         example_entry_count |-> 1]))
                          ELSE ExtractStatuses(Tail(entries),
                                 [i \in 1..Len(statuses) |->
                                    IF i \in seen
                                    THEN [statuses[i] EXCEPT !.example_entry_count = @ + 1]
                                    ELSE statuses[i]])

StatusIdHere == <<"status_id_here">>

get_list_statuses_except(e) ==
  [success |-> FALSE, error |-> e,
   message |-> Msg("Failed to get list statuses: {}", <<AErr(e)>>)]

\* get_list_statuses after its call of _get_list_entries_internal returned
get_list_statuses_after(list_identifier, sample_result) ==
  IF ~sample_result.success THEN Return(sample_result)
  ELSE IF ~Get(sample_result, "found", FALSE)
  THEN Return([success |-> TRUE,
               list_name |-> Get(sample_result, "list_name", list_identifier),
               statuses |-> <<>>,
               message |-> Msg("No entries found in list '{}' to determine statuses",
                               <<AStr(list_identifier)>>)])
  ELSE LET o == ExtractStatuses(sample_result.entries, <<>>)
       IN IF o.kind = "raise" THEN o
          ELSE LET status_list == SortByTitle(o.loc)
                   list_name == Get(sample_result, "list_name", list_identifier)
               IN Return([success |-> TRUE,
                          list_name |-> list_name,
                          list_id |-> Get(sample_result, "list_id", None),
                          count |-> Len(status_list),
                          statuses |-> status_list,
                          message |-> Msg("Found {} unique statuses in list '{}'",
                                          <<AInt(Len(status_list)), AStr(list_name)>>),
                          usage_example |->
                            Msg("get_list_entries('{}', {'status': {'$eq': '{}'}})",
                                <<AStr(list_identifier),
                                  AStr(IF status_list # <<>> THEN status_list[1].id
                                       ELSE StatusIdHere)>>)])

(***************************************************************************)
(* update_list_entry                                                       *)
(***************************************************************************)
EntryMatches(person_identifier, entry) ==
  LET record_email == Get(Get(entry, "record_email_addresses", EmptyMap), "value", <<>>)
      record_name == Get(Get(entry, "record_name", EmptyMap), "value", <<>>)
  IN \/ Contains(Lower(person_identifier), Lower(record_email))
     \/ Contains(Lower(person_identifier), Lower(record_name))

update_list_entry_except(e) ==
  [success |-> FALSE, error |-> e,
   message |-> Msg("Failed to update list entry: {}", <<AErr(e)>>)]

\* update_list_entry after its call of get_list_entries returned
update_list_entry_find(list_identifier, person_identifier, entries_result) ==
  IF ~entries_result.success THEN Return(entries_result)
  ELSE IF ~Get(entries_result, "found", FALSE)
  THEN Return([success |-> FALSE,
               message |-> Msg("List '{}' has no entries", <<AStr(list_identifier)>>)])
  ELSE LET entries == entries_result.entries
           hits == {i \in 1..Len(entries) : EntryMatches(person_identifier, entries[i])}
       IN IF hits = {}
          THEN Return([success |-> FALSE,
                       message |-> Msg("Could not find '{}' in list '{}'",
                                       <<AStr(person_identifier), AStr(list_identifier)>>),
                       suggestion |-> Msg("Use get_list_entries('{}') to see who's in the list",
                                          <<AStr(list_identifier)>>)])
          ELSE LET target_entry == entries[CHOOSE i \in hits : \A j \in hits : i <= j]
               IN Go([entry_id |-> Get(target_entry, "entry_id", None),
                      list_id |-> Get(entries_result, "list_id", None),
                      list_name |-> Get(entries_result, "list_name", None)])

UpdateData(attribute_updates) == [data |-> [entry_values |-> attribute_updates]]

update_list_entry_put(person_identifier, attribute_updates, list_name, entry_id, g) ==
  IF ~g.ok THEN Raise(g.exc)
  ELSE Return([success |-> TRUE,
               message |-> Msg("Successfully updated {} in list '{}'",
                               <<AStr(person_identifier), AStr(list_name)>>),
               updated_attributes |-> attribute_updates,
               entry_id |-> entry_id])

(***************************************************************************)
(* create_note                                                             *)
(***************************************************************************)
NoteIdLen == 30

\* the identifier is taken for a record ID, not for a name
LooksLikeRecordId(parent_identifier) ==
  HasChar("-", parent_identifier) /\ Len(parent_identifier) > NoteIdLen

RecordName(r, default) == Get(Get(r, "name", EmptyMap), "value", default)

create_note_except(e) ==
  [success |-> FALSE, error |-> e,
   message |-> Msg("Failed to create note: {}", <<AErr(e)>>),
   suggestion |-> Msg("Use list_available_objects() to see valid object types", <<>>)]

\* a variant that goes on to the note whatever the search returned
create_note_search_through(parent_object, parent_identifier, search_result) ==
  Go([parent_record_id |-> parent_identifier, display_name |-> parent_identifier])

\* create_note after its record search returned
create_note_search(parent_object, parent_identifier, search_result) ==
  IF ~Get(search_result, "found", FALSE) \/ Get(search_result, "records", <<>>) = <<>>
  THEN Return([success |-> FALSE,
               message |-> Msg("Could not find {} matching '{}'",
                               <<AStr(parent_object), AStr(parent_identifier)>>),
               suggestion |-> Msg("Try query_records('{}', {'name': {'$contains': '...'}}) to find the correct name",
                                  <<AStr(parent_object)>>)])
  ELSE LET records == search_result.records
       IN IF Len(records) > 1
          THEN LET record_names == [i \in 1..Len(records) |-> RecordName(records[i], Unknown)]
               IN Return([success |-> FALSE,
                          message |-> Msg("Found {} {} matching '{}': {}",
                                          <<AInt(Len(records)), AStr(parent_object),
                                            AStr(parent_identifier), ANames(record_names)>>),
                          suggestion |-> Msg("Please be more specific with the name, or provide the record ID directly", <<>>),
                          matches |-> record_names])
          ELSE Go([parent_record_id |-> Get(records[1], "id", None),
                   display_name |-> RecordName(records[1], parent_identifier)])

\* a variant that goes on without the check
create_note_check_not(parent_identifier, l) == Go(l)

\* the check of the record ID before the note is created
create_note_check(parent_identifier, l) ==
  IF ~TruthyStr(l.parent_record_id)
  THEN Return([success |-> FALSE,
               message |-> Msg("Could not determine record ID for '{}'", <<AStr(parent_identifier)>>),
               error |-> ErrText("Missing record ID", 0, {})])
  ELSE Go(l)

NoteData(parent_object, parent_record_id, title, content) ==
  [data |-> [parent_object |-> parent_object, parent_record_id |-> parent_record_id,
             title |-> title, format |-> "plaintext", content |-> content]]

create_note_post(parent_object, title, parent_record_id, display_name, g) ==
  IF ~g.ok THEN Raise(g.exc)
  ELSE Return([success |-> TRUE,
               message |-> Msg("Successfully added note '{}' to {} '{}'",
                               <<AStr(title), AStr(parent_object), AStr(display_name)>>),
               note |-> [id |-> Get(Get(Get(g.json, "data", EmptyMap), "id", EmptyMap),
                                    "note_id", None),
                         title |-> title,
                         attached_to |-> display_name,
                         parent_object |-> parent_object,
                         parent_record_id |-> parent_record_id]])

(***************************************************************************)
(* add_to_list                                                             *)
(***************************************************************************)
Loc0 == [list_id |-> None, list_name |-> None, i |-> 1, results |-> <<>>,
         person_record_id |-> None, entry_id |-> None,
         parent_record_id |-> None, display_name |-> None]

\* the list lookup of add_to_list, given the gateway's outcome g
add_to_list_resolve(list_identifier, g) ==
  IF ~g.ok THEN Raise(g.exc)
  ELSE LET data == g.json.data
       IN IF data = <<>>
          THEN Return([success |-> FALSE, message |-> Msg("No lists found in workspace", <<>>)])
          ELSE IF \E i \in 1..Len(data) : IsJunk(data[i])
          THEN Raise(ErrAttribute)
          ELSE LET matching_lists == MatchingLists(list_identifier, data)
               IN IF matching_lists = <<>>
                  THEN Return([success |-> FALSE,
                               message |-> Msg("Could not find list '{}'", <<AStr(list_identifier)>>),
                               available_lists |-> ListNames(data)])
                  ELSE Go([list_id |-> ListIdOf(matching_lists[1]),
                           list_name |-> Get(matching_lists[1], "name", list_identifier)])

add_to_list_except(e) ==
  [success |-> FALSE, error |-> e, message |-> Msg("Failed to add to list: {}", <<AErr(e)>>)]

PersonFilter(person_id) ==
  IF ~HasChar("@", person_id)
  THEN "name" :> ("$contains" :> person_id)
  ELSE "email_addresses" :> ("$contains" :> person_id)

\* a variant that always carries entry_values
AddDataWithValues(person_record_id, entry_attributes) ==
  [data |-> [entry_values |-> entry_attributes, parent_record_id |-> person_record_id]]

AddData(person_record_id, entry_attributes) ==
  [data |-> (IF TruthyDict(entry_attributes) THEN [entry_values |-> entry_attributes] ELSE EmptyMap)
            @@ [parent_record_id |-> person_record_id]]

ItemResult(person_id, success, message) ==
  [identifier |-> person_id, success |-> success, message |-> message]

\* the loop goes on at position at with the locals l
GoAt(l, at) == [kind |-> "go", loc |-> l, at |-> at]

\* a variant of the except clause inside the loop that lets the exception go
add_to_list_item_reraise(l, person_id, e) == Raise(e)

\* the except clause inside the loop
add_to_list_item_except(l, person_id, e) ==
  GoAt([l EXCEPT !.results = Append(@, ItemResult(person_id, FALSE, Msg("{}", <<AErr(e)>>))),
                 !.i = @ + 1],
       "atl_loop")

\* a variant that reports the error of a failed search
add_to_list_search_with_error(l, person_id, search_result) ==
  IF ~Get(search_result, "found", FALSE)
  THEN GoAt([l EXCEPT !.results =
                        Append(@, ItemResult(person_id, FALSE,
                                             IF "error" \in DOMAIN search_result
                                             THEN Msg("{}", <<AErr(search_result.error)>>)
                                             ELSE Msg("Person not found", <<>>))),
                      !.i = @ + 1],
            "atl_loop")
  ELSE GoAt([l EXCEPT !.person_record_id = Get(search_result.records[1], "id", None)],
            "atl_add")

\* one turn of the loop after query_records returned search_result
add_to_list_search(l, person_id, search_result) ==
  IF ~Get(search_result, "found", FALSE)
  THEN GoAt([l EXCEPT !.results = Append(@, ItemResult(person_id, FALSE,
                                                       Msg("Person not found", <<>>))),
                      !.i = @ + 1],
            "atl_loop")
  ELSE GoAt([l EXCEPT !.person_record_id = Get(search_result.records[1], "id", None)],
            "atl_add")

\* a variant that addresses the list by the caller's identifier
add_to_list_add_by_identifier(a, l) ==
  make_attio_request(Endpoint("/lists/{}/entries", a.list_identifier, None), "POST",
                     AddData(l.person_record_id, a.entry_attributes), a.api_key)

\* the gateway call that adds the found record to the list
add_to_list_add(a, l) ==
  make_attio_request(Endpoint("/lists/{}/entries", l.list_id, None), "POST",
                     AddData(l.person_record_id, a.entry_attributes), a.api_key)

\* the rest of the turn, given the outcome g of the add-entry call
add_to_list_added(l, person_id, g) ==
  IF ~g.ok THEN add_to_list_item_except(l, person_id, g.exc)
  ELSE GoAt([l EXCEPT !.results = Append(@, ItemResult(person_id, TRUE,
                                                       Msg("Added to list", <<>>))),
                      !.i = @ + 1],
            "atl_loop")

\* a variant that counts every result
SuccessCountAll(results) == Len(results)

SuccessCount(results) == Cardinality({i \in 1..Len(results) : results[i].success})

\* a variant whose success tells whether any item succeeded
add_to_list_summary_any(list_name, person_identifiers, results) ==
  LET success_count == SuccessCount(results)
  IN [success |-> success_count > 0,
      list_name |-> list_name,
      total_attempted |-> Len(person_identifiers),
      successful |-> success_count,
      failed |-> Len(person_identifiers) - success_count,
      results |-> results,
      message |-> Msg("Added {}/{} people to '{}'",
                      <<AInt(success_count), AInt(Len(person_identifiers)), AStr(list_name)>>)]

add_to_list_summary(list_name, person_identifiers, results) ==
  LET success_count == SuccessCount(results)
  IN [success |-> TRUE,
      list_name |-> list_name,
      total_attempted |-> Len(person_identifiers),
      successful |-> success_count,
      failed |-> Len(person_identifiers) - success_count,
      results |-> results,
      message |-> Msg("Added {}/{} people to '{}'",
                      <<AInt(success_count), AInt(Len(person_identifiers)), AStr(list_name)>>)]

(***************************************************************************)
(* The arguments the tools are called with.                                *)
(***************************************************************************)
IdFu == <<"f", "u">>
IdUnd == <<"U", "N", "D">>
IdX == <<"x">>
IdLong == Pad(<<"a", "-">>, IdMinLen)
IdShort == Pad(<<"a", "-">>, IdMinLen - 1)
IdNoDash == Pad(<<"a">>, IdMinLen)
ListIdentifiers == {IdFu, IdUnd, IdX, IdLong, IdShort, IdNoDash}

\* the identifiers of one bulk call are distinct; None stands for an item
\* that is no str
PersonIdentifiers == {AnnMail, Ann, None}
PersonIdentifierLists == {q \in SeqsUpTo(PersonIdentifiers, MaxIds) : NoRepeat(q)}
EntryAttributes == {NoneDict, EmptyMap, [status |-> <<"n", "e", "w">>]}
ApiKeys == {None, K1}

ObjectTypes == {People, Companies}
NameFilter == "name" :> ("$contains" :> Ann)
Filters == {NoneDict, EmptyMap, NameFilter}
DefaultLimit == 50
Limits == {DefaultLimit}
SortSpec == [attribute |-> "name", direction |-> "asc"]
Sorts == {NoneDict, [list |-> <<>>], [list |-> <<SortSpec>>]}
StatusSample == 100
PersonSearchLimit == 1
NoteSearchLimit == 5

EntryPersons == {AnnMail, <<"N", "E">>, IdX}
AttributeUpdates == {[status |-> <<"n", "e", "w">>]}

IdLonger == Pad(<<"a", "-">>, NoteIdLen + 1)
NoteIdentifiers == {Ann, IdLong, IdLonger, IdNoDash}
NoteContent == <<"c">>
NoteTitle == <<"N", "o", "t", "e">>

(***************************************************************************)
(* The state machine.                                                      *)
(***************************************************************************)
Init ==
  /\ op = "idle"
  /\ args = EmptyMap
  /\ envKey \in {None, K2}
  /\ pc = "idle"
  /\ loc = Loc0
  /\ log = <<>>
  /\ last = NoCall
  /\ result = NoResult

\* a tool call begins
Begin(name, a, at) ==
  /\ pc = "idle"
  /\ op' = name
  /\ args' = a
  /\ pc' = at
  /\ loc' = Loc0
  /\ log' = <<>>
  /\ last' = NoCall
  /\ result' = NoResult
  /\ UNCHANGED envKey

\* the tool function returns r
Finish(r) ==
  /\ result' = r
  /\ pc' = "done"
  /\ UNCHANGED loc

\* the caller takes the result; the server is ready for the next call
Done ==
  /\ pc = "done"
  /\ op' = "idle"
  /\ args' = EmptyMap
  /\ pc' = "idle"
  /\ loc' = Loc0
  /\ log' = <<>>
  /\ last' = NoCall
  /\ result' = NoResult
  /\ UNCHANGED envKey

Call_add_to_list ==
  /\ pc = "idle"
  /\ \E lid \in ListIdentifiers, pids \in PersonIdentifierLists,
        ea \in EntryAttributes, k \in ApiKeys :
       Begin("add_to_list",
             [list_identifier |-> lid, person_identifiers |-> pids,
              entry_attributes |-> ea, api_key |-> k],
             "atl_resolve")

\* add_to_list, the list lookup
ATL_Resolve ==
  /\ op = "add_to_list" /\ pc = "atl_resolve"
  /\ UNCHANGED <<op, args>>
  /\ envKey' = environ_after(args.api_key)
  /\ IF NameLike(args.list_identifier)
     THEN \E g \in make_attio_request(Endpoint("/lists", None, None), "GET", NoData, args.api_key) :
            /\ log' = Append(log, Logged(g.req, 0))
            /\ last' = g
            /\ LET o == add_to_list_resolve(args.list_identifier, g)
               IN CASE o.kind = "go" ->
                         /\ loc' = [loc EXCEPT !.list_id = o.loc.list_id,
                                               !.list_name = o.loc.list_name]
                         /\ pc' = "atl_loop"
                         /\ UNCHANGED result
                    [] o.kind = "return" -> Finish(o.result)
                    [] o.kind = "raise" -> Finish(add_to_list_except(o.exc))
     ELSE /\ loc' = [loc EXCEPT !.list_id = args.list_identifier,
                                !.list_name = args.list_identifier]
          /\ pc' = "atl_loop"
          /\ UNCHANGED <<log, result>>
          /\ last' = NoCall

\* a turn of the loop of add_to_list ends with outcome o
ATL_Turn(o) ==
  CASE o.kind = "go" ->
         /\ loc' = o.loc
         /\ pc' = o.at
         /\ UNCHANGED result
    [] o.kind = "raise" -> Finish(add_to_list_except(o.exc))

\* add_to_list, one turn of the loop up to the search's outcome
ATL_Search ==
  /\ op = "add_to_list" /\ pc = "atl_loop"
  /\ loc.i <= Len(args.person_identifiers)
  /\ UNCHANGED <<op, args>>
  /\ envKey' = environ_after(args.api_key)
  /\ LET person_id == args.person_identifiers[loc.i]
     IN IF person_id = None
        THEN \* "@" not in person_id raises TypeError
             /\ UNCHANGED log
             /\ last' = NoCall
             /\ ATL_Turn(add_to_list_item_except(loc, person_id, ErrType))
        ELSE \E q \in query_records(People, args.api_key, PersonFilter(person_id),
                                    PersonSearchLimit, NoneDict) :
               /\ log' = Append(log, Logged(q.g.req, loc.i))
               /\ last' = q.g
               /\ ATL_Turn(add_to_list_search(loc, person_id, q.result))

\* add_to_list, the rest of the turn: the add-entry request
ATL_Add ==
  /\ op = "add_to_list" /\ pc = "atl_add"
  /\ UNCHANGED <<op, args>>
  /\ envKey' = environ_after(args.api_key)
  /\ \E g \in add_to_list_add(args, loc) :
       /\ log' = Append(log, Logged(g.req, loc.i))
       /\ last' = g
       /\ ATL_Turn(add_to_list_added(loc, args.person_identifiers[loc.i], g))

\* a variant that leaves the loop before the last identifier was taken
ATL_FinishEarly ==
  /\ op = "add_to_list" /\ pc = "atl_loop"
  /\ UNCHANGED <<op, args, log>>
  /\ envKey' = environ_after(args.api_key)
  /\ last' = NoCall
  /\ Finish(add_to_list_summary(loc.list_name, args.person_identifiers, loc.results))

\* add_to_list, after the loop
ATL_Finish ==
  /\ op = "add_to_list" /\ pc = "atl_loop"
  /\ loc.i > Len(args.person_identifiers)
  /\ UNCHANGED <<op, args, log>>
  /\ envKey' = environ_after(args.api_key)
  /\ last' = NoCall
  /\ Finish(add_to_list_summary(loc.list_name, args.person_identifiers, loc.results))

Call_query_records ==
  /\ pc = "idle"
  /\ \E ot \in ObjectTypes, f \in Filters, lim \in Limits, so \in Sorts, k \in ApiKeys :
       Begin("query_records",
             [object_type |-> ot, filters |-> f, limit |-> lim, sorts |-> so, api_key |-> k],
             "qr_query")

\* query_records, called as a tool
QR_Query ==
  /\ op = "query_records" /\ pc = "qr_query"
  /\ UNCHANGED <<op, args>>
  /\ envKey' = environ_after(args.api_key)
  /\ \E q \in query_records(args.object_type, args.api_key, args.filters, args.limit, args.sorts) :
       /\ log' = Append(log, Logged(q.g.req, 0))
       /\ last' = q.g
       /\ Finish(q.result)

Call_get_list_entries ==
  /\ pc = "idle"
  /\ \E lid \in ListIdentifiers, f \in Filters, lim \in Limits, k \in ApiKeys :
       Begin("get_list_entries",
             [list_identifier |-> lid, filters |-> f, limit |-> lim, api_key |-> k],
             "gle_resolve")

Call_get_list_statuses ==
  /\ pc = "idle"
  /\ \E lid \in ListIdentifiers, k \in ApiKeys :
       Begin("get_list_statuses", [list_identifier |-> lid, api_key |-> k], "gle_resolve")

Call_update_list_entry ==
  /\ pc = "idle"
  /\ \E lid \in ListIdentifiers, pid \in EntryPersons, au \in AttributeUpdates, k \in ApiKeys :
       Begin("update_list_entry",
             [list_identifier |-> lid, person_identifier |-> pid,
              attribute_updates |-> au, api_key |-> k],
             "gle_resolve")

\* the tools that run _get_list_entries_internal, and what they pass to it
EntriesTools == {"get_list_entries", "get_list_statuses", "update_list_entry"}
InternalFilters == IF op = "get_list_entries" THEN args.filters ELSE NoneDict
\* a variant that samples with the default limit
InternalLimitDefault == DefaultLimit

InternalLimit == IF op = "get_list_entries" THEN args.limit ELSE StatusSample

\* _get_list_entries_internal returned r to the tool that called it
AfterEntries(r) ==
  CASE op = "get_list_entries" -> Finish(r)
    [] op = "get_list_statuses" ->
         LET o == get_list_statuses_after(args.list_identifier, r)
         IN Finish(IF o.kind = "raise" THEN get_list_statuses_except(o.exc) ELSE o.result)
    [] op = "update_list_entry" ->
         LET o == update_list_entry_find(args.list_identifier, args.person_identifier, r)
         IN CASE o.kind = "go" ->
                   /\ loc' = [loc EXCEPT !.entry_id = o.loc.entry_id,
                                         !.list_id = o.loc.list_id,
                                         !.list_name = o.loc.list_name]
                   /\ pc' = "ule_put"
                   /\ UNCHANGED result
              [] o.kind = "return" -> Finish(o.result)
              [] o.kind = "raise" -> Finish(update_list_entry_except(o.exc))

\* _get_list_entries_internal, the list lookup
GLE_Resolve ==
  /\ op \in EntriesTools /\ pc = "gle_resolve"
  /\ UNCHANGED <<op, args>>
  /\ envKey' = environ_after(args.api_key)
  /\ IF NameLike(args.list_identifier)
     THEN \E g \in make_attio_request(Endpoint("/lists", None, None), "GET", NoData, args.api_key) :
            /\ log' = Append(log, Logged(g.req, 0))
            /\ last' = g
            /\ LET o == get_list_entries_resolve(args.list_identifier, g)
               IN CASE o.kind = "go" ->
                         /\ loc' = [loc EXCEPT !.list_id = o.loc.list_id,
                                               !.list_name = o.loc.list_name]
                         /\ pc' = "gle_query"
                         /\ UNCHANGED result
                    [] o.kind = "return" -> AfterEntries(o.result)
                    [] o.kind = "raise" -> AfterEntries(get_list_entries_except(o.exc))
     ELSE /\ loc' = [loc EXCEPT !.list_id = args.list_identifier,
                                !.list_name = args.list_identifier]
          /\ pc' = "gle_query"
          /\ UNCHANGED <<log, result>>
          /\ last' = NoCall

\* _get_list_entries_internal, the entries query, and the rest of the tool
\* up to its next request
GLE_Query ==
  /\ op \in EntriesTools /\ pc = "gle_query"
  /\ UNCHANGED <<op, args>>
  /\ envKey' = environ_after(args.api_key)
  /\ \E g \in make_attio_request(Endpoint("/lists/{}/entries/query", loc.list_id, None), "POST",
                                 EntriesQueryData(InternalFilters, InternalLimit), args.api_key) :
       /\ log' = Append(log, Logged(g.req, 0))
       /\ last' = g
       /\ LET o == get_list_entries_query(loc.list_id, loc.list_name, InternalFilters, g)
          IN AfterEntries(IF o.kind = "raise" THEN get_list_entries_except(o.exc) ELSE o.result)

\* update_list_entry, the update request
ULE_Put ==
  /\ op = "update_list_entry" /\ pc = "ule_put"
  /\ UNCHANGED <<op, args>>
  /\ envKey' = environ_after(args.api_key)
  /\ \E g \in make_attio_request(Endpoint("/lists/{}/entries/{}", loc.list_id, loc.entry_id), "PUT",
                                 UpdateData(args.attribute_updates), args.api_key) :
       /\ log' = Append(log, Logged(g.req, 0))
       /\ last' = g
       /\ LET o == update_list_entry_put(args.person_identifier, args.attribute_updates,
                                         loc.list_name, loc.entry_id, g)
          IN Finish(IF o.kind = "raise" THEN update_list_entry_except(o.exc) ELSE o.result)

Call_create_note ==
  /\ pc = "idle"
  /\ \E ot \in ObjectTypes, pid \in NoteIdentifiers, k \in ApiKeys :
       Begin("create_note",
             [parent_object |-> ot, parent_identifier |-> pid,
              content |-> NoteContent, title |-> NoteTitle, api_key |-> k],
             "cn_resolve")

\* create_note up to the check of the record ID
CN_Resolve ==
  /\ op = "create_note" /\ pc = "cn_resolve"
  /\ UNCHANGED <<op, args>>
  /\ envKey' = environ_after(args.api_key)
  /\ IF LooksLikeRecordId(args.parent_identifier)
     THEN /\ loc' = [loc EXCEPT !.parent_record_id = args.parent_identifier,
                                !.display_name = args.parent_identifier]
          /\ pc' = "cn_post"
          /\ UNCHANGED <<log, result>>
          /\ last' = NoCall
     ELSE \E q \in query_records(args.parent_object, args.api_key,
                                 "name" :> ("$contains" :> args.parent_identifier),
                                 NoteSearchLimit, NoneDict) :
            /\ log' = Append(log, Logged(q.g.req, 0))
            /\ last' = q.g
            /\ LET s == create_note_search(args.parent_object, args.parent_identifier, q.result)
                   o == IF s.kind = "go" THEN create_note_check(args.parent_identifier, s.loc) ELSE s
               IN CASE o.kind = "go" ->
                         /\ loc' = [loc EXCEPT !.parent_record_id = o.loc.parent_record_id,
                                               !.display_name = o.loc.display_name]
                         /\ pc' = "cn_post"
                         /\ UNCHANGED result
                    [] o.kind = "return" -> Finish(o.result)
                    [] o.kind = "raise" -> Finish(create_note_except(o.exc))

\* create_note, the note request
CN_Post ==
  /\ op = "create_note" /\ pc = "cn_post"
  /\ UNCHANGED <<op, args>>
  /\ envKey' = environ_after(args.api_key)
  /\ \E g \in make_attio_request(Endpoint("/notes", None, None), "POST",
                                 NoteData(args.parent_object, loc.parent_record_id,
                                          args.title, args.content),
                                 args.api_key) :
       /\ log' = Append(log, Logged(g.req, 0))
       /\ last' = g
       /\ LET o == create_note_post(args.parent_object, args.title, loc.parent_record_id,
                                    loc.display_name, g)
          IN Finish(IF o.kind = "raise" THEN create_note_except(o.exc) ELSE o.result)

Next ==
  \/ Call_query_records
  \/ QR_Query
  \/ Call_get_list_entries
  \/ Call_get_list_statuses
  \/ Call_update_list_entry
  \/ GLE_Resolve
  \/ GLE_Query
  \/ ULE_Put
  \/ Call_add_to_list
  \/ ATL_Resolve
  \/ ATL_Search
  \/ ATL_Add
  \/ ATL_Finish
  \/ Call_create_note
  \/ CN_Resolve
  \/ CN_Post
  \/ Done

Spec == Init /\ [][Next]_vars

(***************************************************************************)
(* Properties.                                                             *)
(***************************************************************************)
ListTools == {"get_list_entries", "get_list_statuses", "update_list_entry", "add_to_list"}

Finished == pc = "done"
Failed == Finished /\ "success" \in DOMAIN result /\ result.success = FALSE

\* the latest step asked for GET /lists and the remote answered with a
\* well-formed collection of lists
ListsAnswered ==
  /\ op \in ListTools
  /\ "req" \in DOMAIN last
  /\ last.req.endpoint.path = "/lists"
  /\ last.ok
  /\ \A i \in 1..Len(last.json.data) : ~IsJunk(last.json.data[i])

ListsReturned == last.json.data

\* the positions of the lists whose name contains the identifier, case-insensitively
MatchPositions ==
  {i \in 1..Len(ListsReturned) :
     /\ "name" \in DOMAIN ListsReturned[i]
     /\ Contains(Lower(args.list_identifier), Lower(ListsReturned[i].name))}

NamesAt(positions) ==
  {ListsReturned[i].name : i \in positions}

SeqRange(q) == {q[i] : i \in 1..Len(q)}

\* C1: in every tool that resolves a list by name, when more than one list
\* name contains the identifier the call fails as ambiguous, reports every
\* matched name, picks no list and makes no further request.
C1_AmbiguousNeverPicks ==
  (ListsAnswered /\ Cardinality(MatchPositions) > 1) =>
    /\ Failed
    /\ result.message.fmt = "Found {} lists matching '{}': {}"
    /\ SeqRange(result.message.args[3].names) = NamesAt(MatchPositions)
    /\ loc.list_id = None
    /\ Len(log) = 1

\* C1 holds of the three tools that resolve through _get_list_entries_internal
C1_AmbiguousViaInternal == (op # "add_to_list") => C1_AmbiguousNeverPicks

\* C2: when a list is resolved by name and no list name contains the
\* identifier, the call fails, carries the display name of every list the
\* remote returned (one per list, in order), and makes no further request.
C2_NotFoundCarriesAllNames ==
  (ListsAnswered /\ MatchPositions = {}) =>
    /\ Failed
    /\ LET carried == Get(result, "available_lists", <<>>)
       IN /\ Len(carried) = Len(ListsReturned)
          /\ \A i \in 1..Len(ListsReturned) :
               carried[i] = IF "name" \in DOMAIN ListsReturned[i]
                            THEN ListsReturned[i].name ELSE Unknown
    /\ Len(log) = 1

C2_Witness ==
  /\ ListsAnswered /\ MatchPositions = {}
  /\ op = "add_to_list"
  /\ Failed
  /\ Len(ListsReturned) = 2
  /\ "available_lists" \in DOMAIN result
  /\ \E i \in 1..2 : "name" \notin DOMAIN ListsReturned[i]

\* C3: when exactly one list name contains the identifier, the lookup yields
\* that list's list_id and its exact name, and the next request is the
\* entries query for that list_id.
TheMatch == ListsReturned[CHOOSE i \in MatchPositions : TRUE]

C3_OneMatchResolves ==
  [][(ListsAnswered /\ Cardinality(MatchPositions) = 1) =>
       /\ pc \in {"gle_query", "atl_loop"}
       /\ loc.list_id = TheMatch.id.list_id
       /\ loc.list_name = TheMatch.name
       /\ op \in EntriesTools =>
            /\ Len(log') = Len(log) + 1
            /\ log'[Len(log')].sent
            /\ log'[Len(log')].method = "POST"
            /\ log'[Len(log')].endpoint =
                 Endpoint("/lists/{}/entries/query", TheMatch.id.list_id, None)]_vars

C3_Witness ==
  /\ op \in EntriesTools
  /\ args.list_identifier = IdUnd
  /\ Len(log) = 2
  /\ log[1].endpoint.path = "/lists"
  /\ log[2].sent
  /\ log[2].endpoint = Endpoint("/lists/{}/entries/query", LFund.id.list_id, None)
  /\ loc.list_name = LFund.name

PastResolve == op \in ListTools /\ pc \notin {"gle_resolve", "atl_resolve"}
ListsRequestSent ==
  \E i \in 1..Len(log) :
    log[i].sent /\ log[i].method = "GET" /\ log[i].endpoint.path = "/lists"
LooksLikeName(s) == ~HasChar("-", s) \/ Len(s) < IdMinLen
HasCredential == TruthyStr(args.api_key) \/ TruthyStr(envKey)

\* C4 as stated: GET /lists is sent if and only if the identifier lacks '-'
\* or is shorter than 30 characters.
C4_ListsSentIffNameLike ==
  PastResolve => (ListsRequestSent <=> LooksLikeName(args.list_identifier))

\* C4: with a credential at hand, GET /lists is sent if and only if the
\* identifier lacks '-' or is shorter than 30 characters; an identifier with
\* '-' and at least 30 characters becomes the list ID and the list name as
\* it is, and the gateway is never asked for the lists.
C4_ListsSentIffNameLikeWithKey ==
  PastResolve =>
    /\ HasCredential => (ListsRequestSent <=> LooksLikeName(args.list_identifier))
    /\ ~LooksLikeName(args.list_identifier) =>
         /\ loc.list_id = args.list_identifier
         /\ loc.list_name = args.list_identifier
         /\ \A i \in 1..Len(log) : log[i].endpoint.path # "/lists"

C4_Witness ==
  /\ PastResolve
  /\ args.list_identifier = IdLong
  /\ Len(log) >= 1
  /\ log[1].sent
  /\ log[1].endpoint.a = IdLong

\* C5: in create_note an identifier with '-' and at least 30 characters is
\* the record ID as it is, with no record search; every other identifier
\* is searched by name.
C5_NoteIdHeuristic ==
  (op = "create_note" /\ pc \in {"cn_post", "done"}) =>
    ((\A i \in 1..Len(log) : log[i].endpoint.path # "/objects/{}/records/query")
       <=> (HasChar("-", args.parent_identifier) /\ Len(args.parent_identifier) >= 30))

InLoop == op = "add_to_list" /\ pc \in {"atl_loop", "atl_add"}
Submitted == Len(args.person_identifiers)
Current == args.person_identifiers[loc.i]
Newest == log'[Len(log')]
IsSearch(e) == e.endpoint.path = "/objects/{}/records/query"
IsAdd(e) == e.endpoint.path = "/lists/{}/entries"

\* the result of the current item, as its own identifier and the answer to
\* its own latest request determine it
OwnOutcome(person_id, at, g) ==
  IF at = "atl_add"
  THEN IF g.ok THEN ItemResult(person_id, TRUE, Msg("Added to list", <<>>))
       ELSE ItemResult(person_id, FALSE, Msg("{}", <<AErr(g.exc)>>))
  ELSE IF g = NoCall THEN ItemResult(person_id, FALSE, Msg("{}", <<AErr(ErrType)>>))
  ELSE ItemResult(person_id, FALSE, Msg("Person not found", <<>>))

\* C6: once the loop of add_to_list runs, no failure of an item ends it: the
\* call ends only after the last identifier, with the summary; every turn
\* searches its identifier, leaves the earlier results as they are and moves
\* to the next identifier; and the result of an item is determined by its
\* own identifier and the answers to its own requests.
C6_ItemFailureIsolated ==
  [][InLoop =>
       /\ Len(loc.results) = loc.i - 1
       /\ pc' = "done" =>
            /\ loc.i > Submitted
            /\ "results" \in DOMAIN result'
            /\ Len(result'.results) = Submitted
       /\ (pc = "atl_loop" /\ pc' # "done" /\ Current # None) =>
            /\ log' = Append(log, Newest)
            /\ IsSearch(Newest) /\ Newest.item = loc.i
            /\ Newest.data.filter \in {"name" :> ("$contains" :> Current),
                                       "email_addresses" :> ("$contains" :> Current)}
       /\ pc' = "atl_add" =>
            /\ pc = "atl_loop"
            /\ loc'.i = loc.i
            /\ loc'.results = loc.results
       /\ pc' = "atl_loop" =>
            /\ loc'.i = loc.i + 1
            /\ loc'.results = Append(loc.results, OwnOutcome(Current, pc, last'))]_vars

C6_Witness ==
  /\ op = "add_to_list" /\ pc = "done"
  /\ "results" \in DOMAIN result
  /\ Len(result.results) = 2
  /\ ~result.results[1].success
  /\ result.results[1].message.fmt = "{}"
  /\ result.results[2].success

\* C7: a summary of add_to_list holds one result per submitted identifier,
\* in submission order; total_attempted is the number of identifiers,
\* successful the number of results with success, and successful + failed
\* is total_attempted.
C7_SummaryCounts ==
  (op = "add_to_list" /\ pc = "done" /\ "results" \in DOMAIN result) =>
    /\ Len(result.results) = Submitted
    /\ \A i \in 1..Submitted : result.results[i].identifier = args.person_identifiers[i]
    /\ result.total_attempted = Submitted
    /\ result.successful = Cardinality({i \in 1..Len(result.results) : result.results[i].success})
    /\ result.successful + result.failed = result.total_attempted
    /\ result.failed >= 0

C7_Witness ==
  /\ op = "add_to_list" /\ pc = "done"
  /\ "results" \in DOMAIN result
  /\ result.total_attempted = 2
  /\ result.successful = 1
  /\ result.failed = 1
  /\ result.results[1].success
  /\ ~result.results[2].success

\* the records the latest search found: none when the request failed or the
\* answer was malformed
Found ==
  IF "req" \in DOMAIN last' /\ last'.ok
     /\ \A i \in 1..Len(last'.json.data) : ~IsJunk(last'.json.data[i])
  THEN last'.json.data
  ELSE <<>>

\* C8: the search of an identifier filters on email_addresses when the
\* identifier contains '@' and on name otherwise; when it finds no record
\* the item fails and no add-entry request is made for it; otherwise one
\* add-entry POST is sent with the first found record's id as
\* parent_record_id, with entry_values exactly when entry_attributes is
\* non-empty, and the item succeeds exactly when that POST succeeds.
C8_SearchThenAdd ==
  [][InLoop =>
       /\ \A i \in 1..Len(log) : IsAdd(log[i]) => log[i].item < loc.i
       /\ (pc = "atl_loop" /\ pc' # "done" /\ Current # None) =>
            /\ log' = Append(log, Newest)
            /\ Newest.method = "POST"
            /\ Newest.endpoint = Endpoint("/objects/{}/records/query", People, None)
            /\ Newest.data.filter =
                 IF HasChar("@", Current)
                 THEN "email_addresses" :> ("$contains" :> Current)
                 ELSE "name" :> ("$contains" :> Current)
            /\ IF Found = <<>>
               THEN /\ pc' = "atl_loop"
                    /\ loc'.i = loc.i + 1
                    /\ ~loc'.results[loc.i].success
               ELSE /\ pc' = "atl_add"
                    /\ loc'.person_record_id =
                         Get(Get(Found[1], "id", EmptyMap), "record_id", None)
       /\ pc = "atl_add" =>
            /\ log' = Append(log, Newest)
            /\ Newest.sent
            /\ Newest.method = "POST"
            /\ IsAdd(Newest) /\ Newest.item = loc.i
            /\ Newest.data.data.parent_record_id = loc.person_record_id
            /\ "entry_values" \in DOMAIN Newest.data.data
                 <=> (~IsNoneDict(args.entry_attributes) /\ args.entry_attributes # EmptyMap)
            /\ "entry_values" \in DOMAIN Newest.data.data
                 => Newest.data.data.entry_values = args.entry_attributes
            /\ DOMAIN Newest.data.data \subseteq {"parent_record_id", "entry_values"}
            /\ pc' = "atl_loop"
            /\ loc'.i = loc.i + 1
            /\ loc'.results[loc.i].success = last'.ok]_vars

C8_Witness ==
  /\ op = "add_to_list" /\ pc = "done"
  /\ args.person_identifiers = <<AnnMail, Ann>>
  /\ TruthyDict(args.entry_attributes)
  /\ "results" \in DOMAIN result
  /\ result.results[1].success
  /\ ~result.results[2].success
  /\ result.results[2].message.fmt = "Person not found"
  /\ Len(log) = 4
  /\ IsAdd(log[3]) /\ log[3].item = 1
  /\ log[3].data.data.parent_record_id = RAnn.id.record_id
  /\ "entry_values" \in DOMAIN log[3].data.data

\* C9: add_to_list asks for the lists at most once, before every request
\* made for an item, and every add-entry request of the call names the list
\* ID that the lookup settled.
C9_ResolvedOnce ==
  op = "add_to_list" =>
    /\ \A i \in 1..Len(log) : log[i].endpoint.path = "/lists" => (i = 1 /\ log[i].item = 0)
    /\ \A i \in 1..Len(log) : log[i].endpoint.path # "/lists" => log[i].item >= 1
    /\ \A i \in 1..Len(log) : IsAdd(log[i]) => log[i].endpoint.a = loc.list_id
    /\ \A i, j \in 1..Len(log) :
         (IsAdd(log[i]) /\ IsAdd(log[j])) => log[i].endpoint = log[j].endpoint

C9_Witness ==
  /\ op = "add_to_list"
  /\ Submitted = 2
  /\ Len(log) = 5
  /\ log[1].endpoint.path = "/lists" /\ log[1].sent
  /\ IsAdd(log[3]) /\ log[3].sent
  /\ IsAdd(log[5]) /\ log[5].sent
  /\ log[5].endpoint.a = LFund.id.list_id

Tools == {"query_records", "get_list_entries", "get_list_statuses", "add_to_list",
          "create_note", "update_list_entry"}

\* C10: every call of a tool ends with a mapping that holds a boolean
\* success and a message; no exception leaves the tool.
C10_AlwaysStructured ==
  (pc = "done") =>
    /\ op \in Tools
    /\ "raised" \notin DOMAIN result
    /\ "success" \in DOMAIN result
    /\ result.success \in BOOLEAN
    /\ "message" \in DOMAIN result
    /\ "fmt" \in DOMAIN result.message

C10_Witness ==
  /\ pc = "done"
  /\ op = "query_records"
  /\ "req" \in DOMAIN last /\ last.ok
  /\ \E i \in 1..Len(last.json.data) : IsJunk(last.json.data[i])
  /\ result.success = FALSE
  /\ "message" \in DOMAIN result

\* the text m holds the text of the missing-key error
ReportsMissingKey(m) ==
  \E i \in 1..Len(m.args) : "err" \in DOMAIN m.args[i] /\ m.args[i].err = ErrApiKey

\* C11: a call made with no api_key argument and no ATTIO_API_KEY in the
\* environment ends with success=false and a message that reports the
\* missing API key.
C11_MissingKeyReported ==
  (pc = "done" /\ ~HasCredential) =>
    /\ "success" \in DOMAIN result
    /\ result.success = FALSE
    /\ ReportsMissingKey(result.message)

\* C11 holds of the calls whose first gateway call is made by
\* _get_list_entries_internal or by query_records called as a tool
C11_MissingKeyReportedDirect ==
  (op \in EntriesTools \cup {"query_records"}) => C11_MissingKeyReported

\* C12: every request sent during one call carries the api_key argument when
\* one is given and the environment's ATTIO_API_KEY otherwise.
C12_SameCredential ==
  \A i \in 1..Len(log) :
    log[i].sent =>
      log[i].key = (IF args.api_key # None /\ args.api_key # <<>>
                    THEN args.api_key ELSE envKey)

C12_Witness ==
  /\ op = "add_to_list"
  /\ envKey = K2
  /\ args.api_key = K1
  /\ Len(log) = 3
  /\ \A i \in 1..3 : log[i].sent /\ log[i].key = K1
  /\ IsAdd(log[3])

\* C13: with a credential present, a gateway call with a method among GET,
\* POST, PATCH, PUT and DELETE sends its request.
C13_FiveMethodsSent ==
  \A i \in 1..Len(log) :
    (log[i].key # None /\ log[i].key # <<>>
     /\ log[i].method \in {"GET", "POST", "PATCH", "PUT", "DELETE"}) => log[i].sent

NonBulk == Tools \ {"add_to_list"}
RemoteFailure == "req" \in DOMAIN last /\ last.req.sent /\ ~last.ok

\* C14: nothing is retried: a call of a non-bulk tool sends no request
\* twice, and a request that fails remotely is its last: the call is over
\* and its result has success=false.
C14_FailureIsTerminal ==
  (op \in NonBulk) =>
    /\ \A i, j \in 1..Len(log) :
         (log[i].method = log[j].method /\ log[i].endpoint = log[j].endpoint) => i = j
    /\ RemoteFailure =>
         /\ pc = "done"
         /\ result.success = FALSE
         /\ log[Len(log)] = Logged(last.req, 0)

C14_Witness ==
  /\ op = "update_list_entry"
  /\ pc = "done"
  /\ Len(log) = 2
  /\ log[1].sent
  /\ RemoteFailure
  /\ last.exc = ErrNet
  /\ result.success = FALSE

IsEntriesQuery(e) == e.endpoint.path = "/lists/{}/entries/query"
NonEmptyDict(d) == "none" \notin DOMAIN d /\ DOMAIN d # {}
NonEmptyList(l) == "none" \notin DOMAIN l /\ Len(l.list) > 0

\* the body names no key other than keys, and holds neither None nor an
\* empty value under filter or sorts
NoNullIn(body, keys) ==
  /\ DOMAIN body \subseteq keys
  /\ "filter" \in DOMAIN body => NonEmptyDict(body.filter)
  /\ "sorts" \in DOMAIN body => Len(body.sorts) > 0

\* C15: the body of a record query always holds limit, holds filter exactly
\* when the caller's filter is non-empty and sorts exactly when the caller's
\* sorts is non-empty; the body of a list-entry query holds limit, and
\* filter exactly when the filter is non-empty; a key without value is left
\* out, never sent as None.
C15_QueryBody ==
  \A i \in 1..Len(log) :
    /\ IsSearch(log[i]) =>
         /\ "limit" \in DOMAIN log[i].data
         /\ NoNullIn(log[i].data, {"limit", "filter", "sorts"})
         /\ op = "query_records" =>
              /\ log[i].data.limit = args.limit
              /\ "filter" \in DOMAIN log[i].data <=> NonEmptyDict(args.filters)
              /\ "filter" \in DOMAIN log[i].data => log[i].data.filter = args.filters
              /\ "sorts" \in DOMAIN log[i].data <=> NonEmptyList(args.sorts)
              /\ "sorts" \in DOMAIN log[i].data => log[i].data.sorts = args.sorts.list
    /\ IsEntriesQuery(log[i]) =>
         /\ "limit" \in DOMAIN log[i].data
         /\ NoNullIn(log[i].data, {"limit", "filter"})
         /\ op = "get_list_entries" =>
              /\ log[i].data.limit = args.limit
              /\ "filter" \in DOMAIN log[i].data <=> NonEmptyDict(args.filters)
              /\ "filter" \in DOMAIN log[i].data => log[i].data.filter = args.filters
         /\ op # "get_list_entries" => DOMAIN log[i].data = {"limit"}

C15_Witness ==
  /\ op = "query_records"
  /\ pc = "done"
  /\ args.filters = EmptyMap
  /\ NonEmptyList(args.sorts)
  /\ log[1].sent
  /\ DOMAIN log[1].data = {"limit", "sorts"}

\* the latest step sent a query and the remote answered it without rows
ZeroRows == "req" \in DOMAIN last /\ last.ok /\ last.json.data = <<>>

\* C16: a record query or a list-entry query answered without rows ends
\* query_records and get_list_entries with success=true, found=false,
\* count=0 and an empty list of records or entries; no failure result of
\* these tools looks like it.
C16_EmptyIsNotFailure ==
  /\ (op = "query_records" /\ pc = "done" /\ ZeroRows) =>
       /\ result.success = TRUE
       /\ {"found", "count"} \subseteq DOMAIN result
       /\ result.found = FALSE
       /\ result.count = 0
       /\ "records" \in DOMAIN result /\ result.records = <<>>
  /\ (op = "get_list_entries" /\ pc = "done" /\ ZeroRows /\ IsEntriesQuery(last.req)) =>
       /\ result.success = TRUE
       /\ {"found", "count"} \subseteq DOMAIN result
       /\ result.found = FALSE
       /\ result.count = 0
       /\ "entries" \in DOMAIN result /\ result.entries = <<>>
  /\ (op \in {"query_records", "get_list_entries"} /\ pc = "done" /\ result.success = FALSE) =>
       /\ "found" \notin DOMAIN result
       /\ "count" \notin DOMAIN result
       /\ ~(ZeroRows /\ (IsSearch(last.req) \/ IsEntriesQuery(last.req)))

C16_Witness ==
  /\ op = "get_list_entries"
  /\ pc = "done"
  /\ ZeroRows
  /\ IsEntriesQuery(last.req)
  /\ Len(log) = 2
  /\ result.success = TRUE
  /\ result.found = FALSE

QueryTools == {"query_records", "get_list_entries"}
QueryFailed == RemoteFailure /\ IsQueryPath(last.req.endpoint.path)
HasSignature(e) == UnknownStatusSlug \in e.tokens \/ InvalidFilterOperator \in e.tokens
PointsAtCatalog(r) ==
  "help" \in DOMAIN r /\ "tool" \in DOMAIN r.help /\ r.help.tool = "get_list_statuses"
EmptyHint(r) ==
  /\ "help" \notin DOMAIN r
  /\ "suggestion" \in DOMAIN r => r.suggestion.fmt = ""

\* C17: when the query of query_records or get_list_entries fails remotely,
\* the result points at get_list_statuses exactly when the error text holds
\* the unknown-status-slug or the invalid-filter-operator code, and carries
\* an empty hint for every other error.
C17_HintOnSignature ==
  (op \in QueryTools /\ pc = "done" /\ QueryFailed) =>
    /\ result.success = FALSE
    /\ PointsAtCatalog(result) <=> HasSignature(last.exc)
    /\ ~HasSignature(last.exc) => EmptyHint(result)

\* what the code does: only a list-entry query that fails with the
\* unknown-status-slug code points at get_list_statuses
C17_HintOnSlugOfEntriesQuery ==
  (op \in QueryTools /\ pc = "done" /\ QueryFailed) =>
    /\ result.success = FALSE
    /\ PointsAtCatalog(result)
         <=> (op = "get_list_entries" /\ UnknownStatusSlug \in last.exc.tokens)
    /\ (op = "get_list_entries" /\ ~HasSignature(last.exc)) => EmptyHint(result)

\* the latest step sent a query and the remote answered it with well-formed rows
RowsAnswered ==
  /\ "req" \in DOMAIN last /\ last.ok
  /\ last.json.data # <<>>
  /\ \A i \in 1..Len(last.json.data) : ~IsJunk(last.json.data[i])
RawRows == last.json.data
ValuesOf(raw) == IF "values" \in DOMAIN raw THEN raw.values ELSE EmptyMap
Filled(values) == {k \in DOMAIN values : Len(values[k]) > 0}

\* C18: a normalized record holds, besides id, exactly the slugs of the raw
\* record's values whose array is non-empty, each with element 0 of its
\* array; a slug with an empty array is left out, and id is the raw record's
\* record_id.
C18_NormalizedRecord ==
  (op = "query_records" /\ pc = "done" /\ RowsAnswered) =>
    /\ "records" \in DOMAIN result
    /\ Len(result.records) = Len(RawRows)
    /\ \A i \in 1..Len(RawRows) :
         LET values == ValuesOf(RawRows[i])
             out == result.records[i]
         IN /\ DOMAIN out = Filled(values) \cup {"id"}
            /\ \A k \in Filled(values) : out[k] = values[k][1]
            /\ "id" \notin Filled(values) =>
                 out.id = (IF "id" \in DOMAIN RawRows[i] THEN RawRows[i].id.record_id ELSE None)

C18_Witness ==
  /\ op = "query_records" /\ pc = "done"
  /\ RowsAnswered
  /\ RawRows = <<RNed, RAnn>>
  /\ DOMAIN result.records[1] = {"id", "name"}
  /\ DOMAIN result.records[2] = {"id", "name", "email_addresses"}
  /\ result.records[2].name = [value |-> Ann]

\* the rows are as they were, and the dicts at the addresses out are new,
\* one per row, and hold what the tool returned as returned
InputKept(rows, mem, out, returned) ==
  /\ SubSeq(mem, 1, Len(rows)) = rows
  /\ Len(out) = Len(rows)
  /\ \A i \in 1..Len(out) : out[i] > Len(rows) /\ out[i] <= Len(mem)
  /\ \A i, j \in 1..Len(out) : out[i] = out[j] => i = j
  /\ [i \in 1..Len(out) |-> mem[out[i]]] = returned

\* C19: normalization leaves the rows of the answer as they were, and every
\* record or entry it returns is a dict made by it, none of them a row of
\* the answer.
C19_InputNotMutated ==
  /\ (op = "query_records" /\ pc = "done" /\ RowsAnswered) =>
       LET r == query_records_loop(RawRows, Addresses(RawRows), <<>>)
       IN InputKept(RawRows, r.mem, r.records, result.records)
  /\ (op = "get_list_entries" /\ pc = "done" /\ RowsAnswered /\ IsEntriesQuery(last.req)) =>
       LET r == get_list_entries_loop(RawRows, Addresses(RawRows), <<>>)
       IN InputKept(RawRows, r.mem, r.entries, result.entries)

C19_Witness ==
  /\ op = "query_records" /\ pc = "done"
  /\ RowsAnswered
  /\ RawRows = <<RAnn, RNed>>
  /\ Len(result.records) = 2
  /\ result.records[1] # RAnn

EntryValuesOf(raw) == IF "entry_values" \in DOMAIN raw THEN raw.entry_values ELSE EmptyMap
ParentValuesOf(raw) ==
  IF "parent_record" \in DOMAIN raw THEN ValuesOf(raw.parent_record) ELSE EmptyMap

\* C20: in every normalized entry each attribute of the entry with a value
\* is found under its slug, each attribute of the parent record with a value
\* under record_ + slug, entry_id and record_id are those of the entry, and
\* the entry holds no other key.
C20_NamespacesKeptApart ==
  (op = "get_list_entries" /\ pc = "done" /\ RowsAnswered /\ IsEntriesQuery(last.req)) =>
    \A i \in 1..Len(RawRows) :
      LET raw == RawRows[i]
          own == EntryValuesOf(raw)
          parent == ParentValuesOf(raw)
          out == result.entries[i]
      IN /\ DOMAIN out = {"entry_id", "record_id"} \cup Filled(own)
                           \cup {"record_" \o k : k \in Filled(parent)}
         /\ \A k \in Filled(parent) : out["record_" \o k] = parent[k][1]
         /\ \A k \in Filled(own) : out[k] = own[k][1]
         /\ out.entry_id = raw.id.entry_id
         /\ out.record_id = raw.parent_record_id

IsNote(e) == e.endpoint.path = "/notes"

\* C21: no add-entry request and no note request is made with a missing
\* parent_record_id: a found record without id makes its item, or the
\* call, fail instead.
C21_NoMutationWithoutId ==
  \A i \in 1..Len(log) :
    (IsAdd(log[i]) \/ IsNote(log[i])) => log[i].data.data.parent_record_id # None

\* C21 holds of create_note
C21_NoNoteWithoutId == (op = "create_note") => C21_NoMutationWithoutId

\* the sampled entries that carry a status object, and their status objects
CarriesStatus(raw) ==
  /\ "status" \in DOMAIN EntryValuesOf(raw)
  /\ Len(raw.entry_values.status) > 0
  /\ "status" \in DOMAIN raw.entry_values.status[1]
StatusOf(raw) == raw.entry_values.status[1].status
WithStatus == {i \in 1..Len(RawRows) : CarriesStatus(RawRows[i])}
SampledIds == {StatusOf(RawRows[i]).id.status_id : i \in WithStatus}

RECURSIVE SumCounts(_)
SumCounts(q) == IF q = <<>> THEN 0 ELSE Head(q).example_entry_count + SumCounts(Tail(q))

\* C22: get_list_statuses returns one status per distinct status_id among
\* the sampled entries that carry a status object, ascending by title, each
\* with the number of sampled entries in that status; the counts add up to
\* the number of sampled entries that carry a status object.
C22_StatusCatalog ==
  (op = "get_list_statuses" /\ pc = "done" /\ RowsAnswered /\ IsEntriesQuery(last.req)) =>
    /\ result.success = TRUE
    /\ "statuses" \in DOMAIN result
    /\ Len(result.statuses) = Cardinality(SampledIds)
    /\ {result.statuses[i].id : i \in 1..Len(result.statuses)} = SampledIds
    /\ \A i, j \in 1..Len(result.statuses) :
         i < j => ~StrLess(result.statuses[j].title, result.statuses[i].title)
    /\ \A i \in 1..Len(result.statuses) :
         result.statuses[i].example_entry_count =
           Cardinality({k \in WithStatus :
                          StatusOf(RawRows[k]).id.status_id = result.statuses[i].id})
    /\ SumCounts(result.statuses) = Cardinality(WithStatus)

C22_Witness ==
  /\ op = "get_list_statuses" /\ pc = "done"
  /\ RowsAnswered /\ IsEntriesQuery(last.req)
  /\ RawRows = <<EAnn, EClash>>
  /\ Len(result.statuses) = 1
  /\ result.statuses[1].example_entry_count = 2

\* two statuses met in descending order of title come out ascending
C22_WitnessSorted ==
  /\ op = "get_list_statuses" /\ pc = "done"
  /\ RowsAnswered /\ IsEntriesQuery(last.req)
  /\ RawRows = <<EAnn, ENed>>
  /\ Len(result.statuses) = 2
  /\ result.statuses[1].title = Lost

IsPut(e) == e.method = "PUT" /\ e.endpoint.path = "/lists/{}/entries/{}"
PutsSent == {i \in 1..Len(log) : IsPut(log[i]) /\ log[i].sent}
PutsCalled == {i \in 1..Len(log) : IsPut(log[i])}
EntryFound == loc.entry_id # None

\* C24: update_list_entry sends one PUT /lists/{list_id}/entries/{entry_id}
\* with entry_values = attribute_updates when an entry matches the person,
\* and returns success=true with the entry_id when the remote accepts it;
\* it sends no PUT and returns success=false when no entry matches, the
\* list does not resolve or has no entries.
C24_UpdateSendsPut ==
  (op = "update_list_entry" /\ pc = "done") =>
    IF EntryFound
    THEN /\ Cardinality(PutsSent) = 1
         /\ \A i \in PutsSent :
              /\ log[i].endpoint.a = loc.list_id
              /\ log[i].endpoint.b = loc.entry_id
              /\ log[i].data = [data |-> [entry_values |-> args.attribute_updates]]
         /\ last.ok => (result.success = TRUE /\ result.entry_id = loc.entry_id)
    ELSE /\ PutsSent = {}
         /\ result.success = FALSE

\* what the code does: with a matching entry the gateway is asked once for
\* the PUT, with the entry's address and the updates, sends nothing and the
\* call fails; without one the gateway is not asked
C24_UpdateNeverSent ==
  (op = "update_list_entry" /\ pc = "done") =>
    /\ PutsSent = {}
    /\ result.success = FALSE
    /\ Cardinality(PutsCalled) = (IF EntryFound THEN 1 ELSE 0)
    /\ \A i \in PutsCalled :
         /\ log[i].endpoint.a = loc.list_id
         /\ log[i].endpoint.b = loc.entry_id
         /\ log[i].data = [data |-> [entry_values |-> args.attribute_updates]]
         /\ result.error = ErrMethod("PUT")

EntriesQueries == {i \in 1..Len(log) : IsEntriesQuery(log[i])}

\* C25: in get_list_entries and get_list_statuses the entries query of a
\* name identifier is sent only as the second request, after GET /lists was
\* answered with exactly one matching list, and names that list's ID; no
\* call makes more than one entries query; get_list_statuses asks for 100
\* entries and reports the statuses of that answer only.
C25_LookupThenQuery ==
  [][(op \in {"get_list_entries", "get_list_statuses"}) =>
       /\ Cardinality(EntriesQueries) <= 1
       /\ (Len(log') > Len(log) /\ IsEntriesQuery(Newest)
           /\ LooksLikeName(args.list_identifier)) =>
            /\ Len(log) = 1
            /\ log[1].method = "GET" /\ log[1].endpoint.path = "/lists" /\ log[1].sent
            /\ ListsAnswered
            /\ Cardinality(MatchPositions) = 1
            /\ Newest.endpoint.a = TheMatch.id.list_id
       /\ (op = "get_list_statuses" /\ Len(log') > Len(log) /\ IsEntriesQuery(Newest)) =>
            /\ Newest.data = [limit |-> 100]
            /\ pc' = "done"
            /\ "statuses" \in DOMAIN result' =>
                 /\ last'.ok
                 /\ \A i \in 1..Len(result'.statuses) :
                      \E k \in 1..Len(last'.json.data) :
                        /\ "entry_values" \in DOMAIN last'.json.data[k]
                        /\ "status" \in DOMAIN last'.json.data[k].entry_values
                        /\ Len(last'.json.data[k].entry_values.status) > 0
                        /\ last'.json.data[k].entry_values.status[1].status.id.status_id
                             = result'.statuses[i].id]_vars

C25_Witness ==
  /\ op = "get_list_statuses" /\ pc = "done"
  /\ args.list_identifier = IdUnd
  /\ Len(log) = 2
  /\ log[1].endpoint.path = "/lists" /\ log[1].sent
  /\ IsEntriesQuery(log[2]) /\ log[2].sent
  /\ log[2].endpoint.a = LFund.id.list_id
  /\ log[2].data.limit = 100
  /\ result.success = TRUE
  /\ Len(result.statuses) = 2

SearchEnded == "req" \in DOMAIN last /\ IsSearch(last.req)
NoteCalls == {i \in 1..Len(log) : IsNote(log[i])}
NameOfRow(raw) ==
  IF "name" \in DOMAIN ValuesOf(raw) /\ Len(raw.values.name) > 0
     /\ "value" \in DOMAIN raw.values.name[1]
  THEN raw.values.name[1].value
  ELSE Unknown

\* C26: create_note asks for POST /notes after a record search only when
\* the search returned exactly one record and that record has an id, which
\* the note then carries; a search without records ends the call as not
\* found, a search with several records ends it with the names of all of
\* them, and neither creates a note.
C26_NoteOnlyForOneRecord ==
  [][(op = "create_note") =>
       /\ (Len(log') > Len(log) /\ IsNote(Newest) /\ Len(log) > 0) =>
            /\ SearchEnded
            /\ RowsAnswered
            /\ Len(RawRows) = 1
            /\ "id" \in DOMAIN RawRows[1]
            /\ Newest.data.data.parent_record_id = RawRows[1].id.record_id
       /\ (pc = "done" /\ SearchEnded) =>
            /\ result.success = FALSE
            /\ NoteCalls = {}
            /\ ZeroRows => result.message.fmt = "Could not find {} matching '{}'"
            /\ (RowsAnswered /\ Len(RawRows) > 1) =>
                 /\ "matches" \in DOMAIN result
                 /\ result.matches = [i \in 1..Len(RawRows) |-> NameOfRow(RawRows[i])]]_vars

C26_Witness ==
  /\ op = "create_note" /\ pc = "done"
  /\ SearchEnded /\ RowsAnswered
  /\ RawRows = <<RAnn, RNed>>
  /\ result.success = FALSE
  /\ result.matches = <<Ann, Ned>>
  /\ NoteCalls = {}

\* C27: in add_to_list, an identifier whose search finds more than one
\* person record is reported as a failed item, and no add-entry request is
\* made for it.
C27_AmbiguousPersonFails ==
  [][(op = "add_to_list" /\ pc = "atl_loop" /\ Len(Found) > 1) =>
       /\ pc' # "atl_add"
       /\ Len(loc'.results) = loc.i
       /\ ~loc'.results[loc.i].success]_vars

\* every person search of add_to_list asks for one row only
C27_SearchAsksOneRow ==
  op = "add_to_list" =>
    \A i \in 1..Len(log) : IsSearch(log[i]) => log[i].data.limit = PersonSearchLimit

SearchFailed == "req" \in DOMAIN last' /\ ~last'.ok
SearchEmpty == "req" \in DOMAIN last' /\ last'.ok /\ last'.json.data = <<>>
NotFoundItem(person_id) == ItemResult(person_id, FALSE, Msg("Person not found", <<>>))

\* C28: in add_to_list, a person search that fails (an HTTP or transport
\* error, or no credential) makes the item a failed one with the message
\* "Person not found", the same result as a search answered without rows;
\* the message carries no error text, the loop moves to the next
\* identifier, and no add-entry request is made for the item.
C28_SearchFailureIsNotFound ==
  [][(op = "add_to_list" /\ pc = "atl_loop" /\ (SearchFailed \/ SearchEmpty)) =>
       /\ IsSearch(Newest) /\ Newest.item = loc.i
       /\ loc'.results = Append(loc.results, NotFoundItem(Current))
       /\ loc'.results[loc.i].message.args = <<>>
       /\ pc' = "atl_loop"
       /\ loc'.i = loc.i + 1
       /\ \A j \in 1..Len(log') : IsAdd(log'[j]) => log'[j].item # loc.i]_vars

\* the loop after a search that reached the remote and failed there: the
\* item is recorded as not found and only the search was requested for it
C28_Witness ==
  /\ op = "add_to_list" /\ pc = "atl_loop"
  /\ SearchEnded /\ last.req.sent /\ ~last.ok
  /\ loc.i = 2
  /\ loc.results = <<NotFoundItem(args.person_identifiers[1])>>
  /\ \A j \in 1..Len(log) : ~IsAdd(log[j])

SummaryKeys == {"success", "list_name", "total_attempted", "successful", "failed",
                "results", "message"}

\* C29: once add_to_list has resolved its list, the call ends only with
\* success=true and the summary, whatever became of the items, also when
\* none succeeded and when no identifier was given; a call of add_to_list
\* that ends with success=false ends in the resolution of the list.
C29_PartialFailureNonFatal ==
  [][(op = "add_to_list" /\ pc' = "done" /\ pc # "done") =>
       /\ pc \in {"atl_loop", "atl_add"} =>
            /\ pc = "atl_loop"
            /\ DOMAIN result' = SummaryKeys
            /\ result'.success = TRUE
            /\ result'.total_attempted = Submitted
            /\ Len(result'.results) = Submitted
       /\ result'.success = FALSE => pc = "atl_resolve"]_vars

\* a summary of two identifiers of which none was added
C29_Witness ==
  /\ op = "add_to_list" /\ pc = "done"
  /\ "results" \in DOMAIN result
  /\ result.success = TRUE
  /\ result.total_attempted = 2
  /\ result.successful = 0
  /\ result.failed = 2

\* a summary of no identifier at all
C29_WitnessEmpty ==
  /\ op = "add_to_list" /\ pc = "done"
  /\ "results" \in DOMAIN result
  /\ result.success = TRUE
  /\ result.total_attempted = 0
  /\ result.results = <<>>

\* a call that ended in the resolution of the list
C29_WitnessResolution ==
  /\ op = "add_to_list" /\ pc = "done"
  /\ result.success = FALSE
  /\ Len(log) = 1

ListLookups == {j \in 1..Len(log) : log[j].endpoint.path = "/lists"}
SearchesOf(i) == {j \in 1..Len(log) : IsSearch(log[j]) /\ log[j].item = i}
AddsOf(i) == {j \in 1..Len(log) : IsAdd(log[j]) /\ log[j].item = i}

\* the requests of a call of add_to_list so far: at most 1 + 2n of them, at
\* most one list lookup, the items in submission order, and for each item at
\* most one search followed by at most one add-entry
RequestsInOrder ==
  /\ Len(log) <= 1 + 2 * Submitted
  /\ Cardinality(ListLookups) <= 1
  /\ loc.i \in 1..(Submitted + 1)
  /\ \A j \in 1..Len(log) : log[j].item \in 0..Submitted
  /\ \A j, k \in 1..Len(log) : j < k => log[j].item <= log[k].item
  /\ \A i \in 1..Submitted :
       /\ Cardinality(SearchesOf(i)) <= 1
       /\ Cardinality(AddsOf(i)) <= 1
       /\ \A a \in AddsOf(i) : \E s \in SearchesOf(i) : s < a

\* the summary holds one result for each identifier, in submission order,
\* and each identifier that is a string was searched once
EachOnce ==
  (pc = "done" /\ "results" \in DOMAIN result) =>
    /\ Len(result.results) = Submitted
    /\ \A i \in 1..Submitted :
         /\ result.results[i].identifier = args.person_identifiers[i]
         /\ args.person_identifiers[i] # None => Cardinality(SearchesOf(i)) = 1

\* a step of a call of add_to_list, and the number of steps the call can
\* still take: two for each identifier not yet taken, one less after its
\* search, one for the summary, one more before the list is resolved
BulkStep == ATL_Resolve \/ ATL_Search \/ ATL_Add \/ ATL_Finish

\* the request a running call is about to make has an outcome, an answer or
\* an exception; a turn for an identifier that is not a string, and the
\* summary, need none
CanStep ==
  CASE pc = "atl_resolve" ->
         NameLike(args.list_identifier) =>
           make_attio_request(Endpoint("/lists", None, None), "GET", NoData, args.api_key) # {}
    [] pc = "atl_loop" ->
         (loc.i <= Submitted /\ Current # None) =>
           query_records(People, args.api_key, PersonFilter(Current), PersonSearchLimit,
                         NoneDict) # {}
    [] pc = "atl_add" -> add_to_list_add(args, loc) # {}
    [] OTHER -> FALSE

\* a running call of add_to_list can take a step
C30_StepEnabled == (op = "add_to_list" /\ pc # "done") => ENABLED BulkStep
StepsLeft ==
  CASE pc = "atl_resolve" -> 2 * Submitted + 2
    [] pc = "atl_loop" -> 2 * (Submitted + 1 - loc.i) + 1
    [] pc = "atl_add" -> 2 * (Submitted + 1 - loc.i)
    [] OTHER -> 0

\* C30: a call of add_to_list with n identifiers ends: while it runs its
\* next step can be taken, and each step leaves fewer steps to take, of which
\* there are at most 2n + 2 at the start. It makes at most 1 + 2n requests,
\* at most one of them a list lookup; it takes the identifiers one after
\* the other in submission order, each once, with at most one search and
\* then at most one add-entry for each.
C30_TerminatesInOrder ==
  /\ [](op = "add_to_list" =>
          /\ RequestsInOrder
          /\ EachOnce
          /\ StepsLeft \in 0..(2 * Submitted + 2)
          /\ pc # "done" => CanStep)
  /\ [][(op = "add_to_list" /\ op' = "add_to_list") => StepsLeft' < StepsLeft]_vars

\* a call with two identifiers that made all of its 1 + 2n requests
C30_Witness ==
  /\ op = "add_to_list" /\ pc = "done"
  /\ Submitted = 2
  /\ Len(log) = 5
  /\ Len(result.results) = 2
  /\ log[2].item = 1 /\ log[3].item = 1
  /\ log[4].item = 2 /\ log[5].item = 2
====
